---- MODULE Spec2Model ----
(***************************************************************************)
(* The climate dashboard of src/app.py as a state machine.                 *)
(*                                                                         *)
(* app.py is a Streamlit script: every user interaction (moving a slider,  *)
(* changing the country selection or the analysis mode, clicking the       *)
(* export button) re-executes the whole script from line 1 with the        *)
(* widgets' current values.  What survives from one execution to the next  *)
(* is the st.cache_data cache of load_data() and the widgets' values; the  *)
(* page (summary, charts, notice, the export button's data) is what the    *)
(* last execution produced.  One action of the model is one interaction    *)
(* together with the script run it triggers.                               *)
(*                                                                         *)
(* Numbers: the float columns are held in tenths (275 is 27.5), so that    *)
(* comparisons are exact; a mean is an exact fraction <<num, den>>; NaN    *)
(* (pandas' missing value) is the empty tuple <<>>.  Text (a country       *)
(* name, the exported CSV) is a sequence of tokens: each of the characters *)
(* that matter to the CSV format  , " newline - . 0..9  is a token of its  *)
(* own, and a run of other characters is one token.                        *)
(*                                                                         *)
(* A widget is taken to hand back a value inside its range whenever the    *)
(* script reaches it, also when a column holds a single value (min = max). *)
(* The export's file name (a timestamp) is not part of the state.          *)
(*                                                                         *)
(* A definition introduced as "a variant" (a mask with an exclusive bound, *)
(* a dispatch without its guard, ...) is a faulty version of the           *)
(* definition that follows it; it is not part of the model, and serves to  *)
(* show that a claim below fails once the code is changed that way.        *)
(***************************************************************************)
EXTENDS Integers, Sequences, FiniteSets, TLC

\* The longest source table (rows of update_temperature.csv) explored.
MaxRows == 2

----------------------------------------------------------------------------
(* The data universe the source file is drawn from.                        *)

Chad == <<"Chad">>
Korea == <<"Korea", ",", " Rep.">>
AllCountries == <<"All Countries">>

Row(y, c, t, co2, ren, ev, pop) ==
    [Year |-> y, Country |-> c, Avg_Temperature_degC |-> t,
     CO2_Emissions_tons_per_capita |-> co2, Renewable_Energy_pct |-> ren,
     Extreme_Weather_Events |-> ev, Population |-> pop]

\* Two observations of (Chad, 2000) with different readings and one of
\* (Korea, Rep., 2001): every filtered column takes two values, one
\* temperature is below zero, and one country name needs quoting in a CSV.
RowUniverse ==
    { Row(2000, Chad,  -15,   5, 100, 3,  950),
      Row(2000, Chad,  120,   5, 455, 4,  950),
      Row(2001, Korea, 120, 118, 100, 0, 4700) }

Tables == UNION { [1..n -> RowUniverse] : n \in 0..MaxRows }

Modes == <<"Overview", "Trends", "Correlation", "Temperature", "Renewable">>

----------------------------------------------------------------------------
(* Helpers standing for pandas / Python primitives.                        *)

Range(s) == { s[i] : i \in DOMAIN s }

SetMin(S) == CHOOSE x \in S : \A y \in S : x <= y
SetMax(S) == CHOOSE x \in S : \A y \in S : x >= y

\* Series.min() / Series.max(): NaN on an empty series.
series_min(S) == IF S = {} THEN <<>> ELSE <<SetMin(S)>>
series_max(S) == IF S = {} THEN <<>> ELSE <<SetMax(S)>>

RECURSIVE SeqSum(_)
SeqSum(s) == IF s = <<>> THEN 0 ELSE Head(s) + SeqSum(Tail(s))

Abs(n) == IF n < 0 THEN -n ELSE n

RECURSIVE Gcd(_, _)
Gcd(a, b) == IF b = 0 THEN a ELSE Gcd(b, a % b)

\* The quotient num/den as a fraction in lowest terms; NaN when den is 0,
\* as numpy's float division gives.
Ratio(num, den) ==
    IF den = 0 THEN <<>>
    ELSE LET g == Gcd(Abs(num), Abs(den))
             s == IF den < 0 THEN -1 ELSE 1
         IN  <<(s * num) \div g, (s * den) \div g>>

\* Series.mean() of the values xs (a sequence).
mean(xs) == Ratio(SeqSum(xs), Len(xs))

\* The set S in ascending order, as groupby's sorted keys.
RECURSIVE sorted(_)
sorted(S) == IF S = {} THEN <<>>
             ELSE LET m == SetMin(S) IN <<m>> \o sorted(S \ {m})

\* frame[col] for the rows of the frame, in order.
Column(frame, col) == [i \in DOMAIN frame |-> frame[i][col]]

----------------------------------------------------------------------------
VARIABLES
    csv_file,        \* the rows of update_temperature.csv (static)
    cache,           \* st.cache_data's entry for load_data(): <<>> or <<table>>
    status,          \* "init" before the first run, then "ok" or "error"
    df,              \* the script's df when the last run ended
    year_range, country_select, temp_range, co2_range, renew_range,
    analysis_mode,   \* the widgets' values
    filtered_df,     \* the filtered view of the last run
    csv_data,        \* the download button's data (csv_buffer.getvalue())
    summary,         \* the Data Summary block
    warning,         \* whether st.warning("No data available ...") is shown
    rendered,        \* the charts plotted, in order
    download         \* <<text>> when this run answers an export click

vars == <<csv_file, cache, status, df, year_range, country_select, temp_range,
          co2_range, renew_range, analysis_mode, filtered_df, csv_data,
          summary, warning, rendered, download>>

----------------------------------------------------------------------------
(* load_data and the filters.                                              *)

\* @st.cache_data load_data(): the file is read on a miss; a hit hands out
\* a copy of the stored table.
load_data(entry, file) == IF entry = <<>> THEN file ELSE entry[1]

\* A variant of the mask whose upper year bound is exclusive.
RangePassStrict(r, yr, tr, cr, rr) ==
    /\ r.Year >= yr[1]
    /\ r.Year < yr[2]
    /\ r.Avg_Temperature_degC >= tr[1]
    /\ r.Avg_Temperature_degC <= tr[2]
    /\ r.CO2_Emissions_tons_per_capita >= cr[1]
    /\ r.CO2_Emissions_tons_per_capita <= cr[2]
    /\ r.Renewable_Energy_pct >= rr[1]
    /\ r.Renewable_Energy_pct <= rr[2]

\* The mask of lines 84-91 for one row.
RangePass(r, yr, tr, cr, rr) ==
    /\ r.Year >= yr[1]
    /\ r.Year <= yr[2]
    /\ r.Avg_Temperature_degC >= tr[1]
    /\ r.Avg_Temperature_degC <= tr[2]
    /\ r.CO2_Emissions_tons_per_capita >= cr[1]
    /\ r.CO2_Emissions_tons_per_capita <= cr[2]
    /\ r.Renewable_Energy_pct >= rr[1]
    /\ r.Renewable_Energy_pct <= rr[2]

\* A variant of the selection that also skips the first surviving row
\* (.iloc[1:]).
RangeFilterSkipFirst(frame, yr, tr, cr, rr) ==
    LET Test(r) == RangePass(r, yr, tr, cr, rr)
        kept == SelectSeq(frame, Test)
    IN  IF kept = <<>> THEN kept ELSE Tail(kept)

\* filtered_df = df[mask], lines 83-92: boolean indexing builds a new frame.
RangeFilter(frame, yr, tr, cr, rr) ==
    LET Test(r) == RangePass(r, yr, tr, cr, rr)
    IN  SelectSeq(frame, Test)

\* A variant of the country clause that is bypassed only by the selection
\* ["All Countries"].
CountryFilterAloneOnly(frame, cs) ==
    LET isin(r) == r.Country \in cs
    IN  IF cs # {AllCountries} THEN SelectSeq(frame, isin) ELSE frame

\* Lines 95-96.
CountryFilter(frame, cs) ==
    LET isin(r) == r.Country \in cs
    IN  IF AllCountries \notin cs THEN SelectSeq(frame, isin) ELSE frame

\* A variant of the filtering that rebinds df itself (df = df[mask]).
apply_filters_inplace(frame, yr, cs, tr, cr, rr) ==
    LET f == CountryFilter(RangeFilter(frame, yr, tr, cr, rr), cs)
    IN  [df |-> f, filtered_df |-> f]

\* Lines 83-96 as a whole: the script's df and filtered_df afterwards.
apply_filters(frame, yr, cs, tr, cr, rr) ==
    [df |-> frame,
     filtered_df |-> CountryFilter(RangeFilter(frame, yr, tr, cr, rr), cs)]

----------------------------------------------------------------------------
(* The CSV export: DataFrame.to_csv, and pandas.read_csv for reading an    *)
(* export back.                                                            *)

Comma == ","
Quote == "\""
Newline == "\n"

Columns == <<"Year", "Country", "Avg_Temperature_degC",
             "CO2_Emissions_tons_per_capita", "Renewable_Energy_pct",
             "Extreme_Weather_Events", "Population">>

\* The columns' dtypes (spec section 3's integer, string and float fields).
Dtypes == [Year |-> "int64", Country |-> "object",
           Avg_Temperature_degC |-> "float64",
           CO2_Emissions_tons_per_capita |-> "float64",
           Renewable_Energy_pct |-> "float64",
           Extreme_Weather_Events |-> "int64", Population |-> "int64"]

DigitChars == <<"0", "1", "2", "3", "4", "5", "6", "7", "8", "9">>

RECURSIVE NatStr(_)
NatStr(n) == IF n < 10 THEN <<DigitChars[n + 1]>>
             ELSE NatStr(n \div 10) \o <<DigitChars[(n % 10) + 1]>>

IntStr(n) == IF n < 0 THEN <<"-">> \o NatStr(-n) ELSE NatStr(n)

\* repr of the float held as t tenths: -15 is "-1.5", 120 is "12.0".
FloatStr(t) ==
    (IF t < 0 THEN <<"-">> ELSE <<>>)
        \o NatStr(Abs(t) \div 10) \o <<".">> \o NatStr(Abs(t) % 10)

RECURSIVE DoubleQuotes(_)
DoubleQuotes(s) ==
    IF s = <<>> THEN <<>>
    ELSE (IF Head(s) = Quote THEN <<Quote, Quote>> ELSE <<Head(s)>>)
             \o DoubleQuotes(Tail(s))

\* csv.QUOTE_MINIMAL: a text field holding the delimiter, the quote
\* character or a line break is quoted, its quotes doubled.
StrField(s) ==
    IF \E i \in DOMAIN s : s[i] \in {Comma, Quote, Newline, "\r"}
    THEN <<Quote>> \o DoubleQuotes(s) \o <<Quote>>
    ELSE s

FormatCell(v, dtype) ==
    CASE dtype = "int64"   -> IntStr(v)
      [] dtype = "float64" -> FloatStr(v)
      [] OTHER             -> StrField(v)

RECURSIVE JoinFields(_)
JoinFields(fields) ==
    IF Len(fields) = 0 THEN <<>>
    ELSE IF Len(fields) = 1 THEN fields[1]
    ELSE fields[1] \o <<Comma>> \o JoinFields(Tail(fields))

CsvLine(fields) == JoinFields(fields) \o <<Newline>>

RowFields(r) == [k \in DOMAIN Columns |-> FormatCell(r[Columns[k]], Dtypes[Columns[k]])]

RECURSIVE CsvBody(_, _)
CsvBody(frame, i) ==
    IF i > Len(frame) THEN <<>>
    ELSE CsvLine(RowFields(frame[i])) \o CsvBody(frame, i + 1)

RECURSIVE CsvBodyIndexed(_, _)
CsvBodyIndexed(frame, i) ==
    IF i > Len(frame) THEN <<>>
    ELSE CsvLine(<<NatStr(i - 1)>> \o RowFields(frame[i]))
             \o CsvBodyIndexed(frame, i + 1)

\* A variant of the export with to_csv's default index=True: a leading
\* unnamed index column.
to_csv_with_index(frame) ==
    CsvLine(<<<<>>>> \o [k \in DOMAIN Columns |-> <<Columns[k]>>])
        \o CsvBodyIndexed(frame, 1)

\* filtered_df.to_csv(csv_buffer, index=False), line 104: the header line,
\* then one line per row.
to_csv(frame) ==
    CsvLine([k \in DOMAIN Columns |-> <<Columns[k]>>]) \o CsvBody(frame, 1)

\* Whether token i of t lies outside quotes: an even number of quote
\* characters precedes it (a doubled quote inside a quoted field counts
\* twice).
Unquoted(t, i) == Cardinality({j \in 1 .. (i - 1) : t[j] = Quote}) % 2 = 0

\* t cut at the separator sep wherever it stands outside quotes.
SplitOn(t, sep) ==
    LET cuts == sorted({i \in DOMAIN t : t[i] = sep /\ Unquoted(t, i)})
    IN  [k \in 1 .. (Len(cuts) + 1) |->
            SubSeq(t,
                   IF k = 1 THEN 1 ELSE cuts[k - 1] + 1,
                   IF k > Len(cuts) THEN Len(t) ELSE cuts[k] - 1)]

RECURSIVE Undouble(_)
Undouble(s) ==
    IF s = <<>> THEN <<>>
    ELSE IF Len(s) >= 2 /\ s[1] = Quote /\ s[2] = Quote
    THEN <<Quote>> \o Undouble(SubSeq(s, 3, Len(s)))
    ELSE <<Head(s)>> \o Undouble(Tail(s))

\* A field's text: a quoted field without its enclosing quotes, its
\* doubled quotes single.
FieldText(f) ==
    IF Len(f) >= 2 /\ f[1] = Quote /\ f[Len(f)] = Quote
    THEN Undouble(SubSeq(f, 2, Len(f) - 1))
    ELSE f

\* The tokenizer of read_csv: the text's records (lines, a line break
\* inside quotes not ending one), each split into its fields.
Tokenize(t) ==
    LET lines == SplitOn(t, Newline)
        kept == IF lines[Len(lines)] = <<>>
                THEN SubSeq(lines, 1, Len(lines) - 1) ELSE lines
    IN  [n \in DOMAIN kept |->
            LET fields == SplitOn(kept[n], Comma)
            IN  [k \in DOMAIN fields |-> FieldText(fields[k])]]

IsDigit(c) == \E d \in DOMAIN DigitChars : DigitChars[d] = c
DigitVal(c) == (CHOOSE d \in DOMAIN DigitChars : DigitChars[d] = c) - 1

AllDigits(s) == Len(s) > 0 /\ \A i \in DOMAIN s : IsDigit(s[i])

Unsigned(s) == IF Len(s) > 0 /\ s[1] = "-" THEN Tail(s) ELSE s

IsIntText(s) == AllDigits(Unsigned(s))

\* digits "." digits, with an optional sign.
IsFloatText(s) ==
    LET u == Unsigned(s)
    IN  \E k \in DOMAIN u :
            /\ u[k] = "."
            /\ AllDigits(SubSeq(u, 1, k - 1))
            /\ AllDigits(SubSeq(u, k + 1, Len(u)))

RECURSIVE NatVal(_)
NatVal(s) == IF s = <<>> THEN 0
             ELSE NatVal(SubSeq(s, 1, Len(s) - 1)) * 10 + DigitVal(s[Len(s)])

IntVal(s) == IF s[1] = "-" THEN -NatVal(Tail(s)) ELSE NatVal(s)

RECURSIVE Pow10(_)
Pow10(k) == IF k = 0 THEN 1 ELSE 10 * Pow10(k - 1)

\* The number a numeric field denotes, in tenths (exact for the at most one
\* decimal the model's float columns hold).
FloatVal(s) ==
    LET u == Unsigned(s)
        sign == IF s[1] = "-" THEN -1 ELSE 1
    IN  IF IsIntText(s) THEN 10 * IntVal(s)
        ELSE LET k == CHOOSE j \in DOMAIN u : u[j] = "."
                 frac == SubSeq(u, k + 1, Len(u))
                 digits == NatVal(SubSeq(u, 1, k - 1)) * Pow10(Len(frac))
                               + NatVal(frac)
             IN  sign * ((digits * 10) \div Pow10(Len(frac)))

\* The dtype read_csv infers for a column from its fields.
InferDtype(fields) ==
    IF fields = {} THEN "object"
    ELSE IF \A f \in fields : IsIntText(f) THEN "int64"
    ELSE IF \A f \in fields : IsIntText(f) \/ IsFloatText(f) THEN "float64"
    ELSE "object"

ParseCell(f, dtype) ==
    CASE dtype = "int64"   -> IntVal(f)
      [] dtype = "float64" -> FloatVal(f)
      [] OTHER             -> f

\* pandas.read_csv(text): the first record names the columns (an empty name
\* becomes "Unnamed: k"), each column's dtype is inferred from its fields.
read_csv(text) ==
    LET recs == Tokenize(text)
        header == IF recs = <<>> THEN <<>> ELSE recs[1]
        body == IF recs = <<>> THEN <<>> ELSE Tail(recs)
        names == [k \in DOMAIN header |->
                    IF header[k] = <<>> THEN <<"Unnamed: ">> \o NatStr(k - 1)
                    ELSE header[k]]
        dtypes == [k \in DOMAIN header |->
                    InferDtype({body[i][k] : i \in DOMAIN body})]
    IN  [columns |-> names,
         dtypes |-> dtypes,
         rows |-> [i \in DOMAIN body |->
                     [k \in DOMAIN header |-> ParseCell(body[i][k], dtypes[k])]]]

----------------------------------------------------------------------------
(* The summary and the charts.                                             *)

\* The Data Summary block, lines 122-128.
data_summary(frame) ==
    [records |-> Len(frame),
     countries |-> Cardinality(Range(Column(frame, "Country"))),
     years |-> <<series_min(Range(Column(frame, "Year"))),
                 series_max(Range(Column(frame, "Year")))>>]

\* groupby(key) ... ['col'].mean() for one group: the mean of col over the
\* group's rows.
GroupMean(group, col) == mean(Column(group, col))

\* show_treemap, lines 144-160: per-country means, one tile per country.
show_treemap(frame) ==
    LET countries == Range(Column(frame, "Country"))
        treemap_data ==
            [c \in countries |->
                LET G(r) == r.Country = c
                IN  [CO2_Emissions_tons_per_capita |->
                         GroupMean(SelectSeq(frame, G), "CO2_Emissions_tons_per_capita"),
                     Avg_Temperature_degC |->
                         GroupMean(SelectSeq(frame, G), "Avg_Temperature_degC"),
                     Extreme_Weather_Events |->
                         GroupMean(SelectSeq(frame, G), "Extreme_Weather_Events"),
                     Population |-> GroupMean(SelectSeq(frame, G), "Population")]]
    IN  <<[kind |-> "treemap",
           title |-> <<"Country Climate Impact Distribution">>,
           data |-> treemap_data]>>

\* yearly of lines 164-169: per-year means of the four indicators, in year
\* order.
yearly_means(frame) ==
    LET years == sorted(Range(Column(frame, "Year")))
    IN  [k \in DOMAIN years |->
            LET G(r) == r.Year = years[k]
            IN  [Year |-> years[k],
                 Avg_Temperature_degC |->
                     GroupMean(SelectSeq(frame, G), "Avg_Temperature_degC"),
                 CO2_Emissions_tons_per_capita |->
                     GroupMean(SelectSeq(frame, G), "CO2_Emissions_tons_per_capita"),
                 Renewable_Energy_pct |->
                     GroupMean(SelectSeq(frame, G), "Renewable_Energy_pct"),
                 Extreme_Weather_Events |->
                     GroupMean(SelectSeq(frame, G), "Extreme_Weather_Events")]]

\* The least-squares slope of col against Year over the frame's rows.
Slope(frame, col) ==
    LET n == Len(frame)
        xs == Column(frame, "Year")
        ys == Column(frame, col)
        xy == [i \in DOMAIN frame |-> xs[i] * ys[i]]
        xx == [i \in DOMAIN frame |-> xs[i] * xs[i]]
    IN  Ratio(n * SeqSum(xy) - SeqSum(xs) * SeqSum(ys),
              n * SeqSum(xx) - SeqSum(xs) * SeqSum(xs))

\* A variant of the trend panels that also shows the temperature trend's
\* slope, whatever the number of rows.
show_trend_panels_with_slope(frame) ==
    <<[kind |-> "trends", title |-> <<"Climate Trends">>,
       data |-> yearly_means(frame)],
      [kind |-> "slope", title |-> <<"Temperature trend">>,
       data |-> Slope(frame, "Avg_Temperature_degC")]>>

\* show_trend_panels, lines 163-194: the per-year means drawn as the four
\* traces of one figure.
show_trend_panels(frame) ==
    <<[kind |-> "trends", title |-> <<"Climate Trends">>,
       data |-> yearly_means(frame)]>>

\* A variant of the scatter over every row of the view, whatever its year.
show_correlation_all_years(frame) ==
    LET latest_year == series_max(Range(Column(frame, "Year")))
    IN  <<[kind |-> "scatter",
           title |-> <<"CO2 vs Temperature (">>
                         \o (IF latest_year = <<>> THEN <<"nan">>
                             ELSE IntStr(latest_year[1]))
                         \o <<")">>,
           data |-> [i \in DOMAIN frame |->
                        [x |-> frame[i].CO2_Emissions_tons_per_capita,
                         y |-> frame[i].Avg_Temperature_degC,
                         size |-> frame[i].Population,
                         color |-> frame[i].Country]]]>>

\* show_correlation, lines 197-209: the scatter of the latest year's rows.
show_correlation(frame) ==
    LET latest_year == series_max(Range(Column(frame, "Year")))
        IsLatest(r) == latest_year # <<>> /\ r.Year = latest_year[1]
        latest == SelectSeq(frame, IsLatest)
    IN  <<[kind |-> "scatter",
           title |-> <<"CO2 vs Temperature (">>
                         \o (IF latest_year = <<>> THEN <<"nan">>
                             ELSE IntStr(latest_year[1]))
                         \o <<")">>,
           data |-> [i \in DOMAIN latest |->
                        [x |-> latest[i].CO2_Emissions_tons_per_capita,
                         y |-> latest[i].Avg_Temperature_degC,
                         size |-> latest[i].Population,
                         color |-> latest[i].Country]]]>>

\* The pivot of line 214: a cell for every (country, year) of the two axes,
\* NaN where heatmap_data has no row for the pair.
pivot(frame, countries, years) ==
    [c \in countries |->
        [y \in years |->
            LET G(r) == r.Country = c /\ r.Year = y
            IN  IF SelectSeq(frame, G) = <<>> THEN <<>>
                ELSE GroupMean(SelectSeq(frame, G), "Avg_Temperature_degC")]]

\* show_temperature_heatmap, lines 212-218.
show_temperature_heatmap(frame) ==
    <<[kind |-> "heatmap", title |-> <<"Temperature Heatmap">>,
       data |-> pivot(frame, Range(Column(frame, "Country")),
                      Range(Column(frame, "Year")))]>>

\* show_renewable_analysis, lines 221-222.
show_renewable_analysis(frame) == show_trend_panels(frame)

\* A variant of the dispatch without the empty-view guard of line 229.
display_unguarded(frame, mode) ==
    [warning |-> FALSE,
     rendered |->
         CASE mode = "Overview" ->
                  show_treemap(frame) \o show_trend_panels(frame)
           [] mode = "Trends" -> show_trend_panels(frame)
           [] mode = "Correlation" -> show_correlation(frame)
           [] mode = "Temperature" -> show_temperature_heatmap(frame)
           [] mode = "Renewable" -> show_renewable_analysis(frame)
           [] OTHER -> <<>>]

\* Lines 229-246: the notice, or the charts of the selected mode.
display(frame, mode) ==
    IF Len(frame) = 0
    THEN [warning |-> TRUE, rendered |-> <<>>]
    ELSE [warning |-> FALSE,
          rendered |->
              CASE mode = "Overview" ->
                       show_treemap(frame) \o show_trend_panels(frame)
                [] mode = "Trends" -> show_trend_panels(frame)
                [] mode = "Correlation" -> show_correlation(frame)
                [] mode = "Temperature" -> show_temperature_heatmap(frame)
                [] mode = "Renewable" -> show_renewable_analysis(frame)
                [] OTHER -> <<>>]

\* One execution of the script below line 18, on the loaded table and the
\* widgets' values: what it leaves on the page.
script(loaded, yr, cs, tr, cr, rr, mode) ==
    LET env == apply_filters(loaded, yr, cs, tr, cr, rr)
        shown == display(env.filtered_df, mode)
    IN  [df |-> env.df,
         filtered_df |-> env.filtered_df,
         csv_data |-> to_csv(env.filtered_df),
         summary |-> data_summary(env.filtered_df),
         warning |-> shown.warning,
         rendered |-> shown.rendered]

----------------------------------------------------------------------------
(* The widgets.                                                            *)

\* A range slider's initial value (min, max) over a column, lines 30-77.
full_range(frame, col) ==
    <<SetMin(Range(Column(frame, col))), SetMax(Range(Column(frame, col)))>>

\* The positions a range slider can be left at.  The year slider steps by 1
\* from the smallest to the largest year; a float slider is explored at the
\* column's own values, which lie in its [min, max].
year_stops(frame) == full_range(frame, "Year")[1] .. full_range(frame, "Year")[2]
float_stops(frame, col) == Range(Column(frame, col))

slider_values(stops) == {<<lo, hi>> \in stops \X stops : lo <= hi}

\* The multiselect's options, lines 41-44.
country_options(frame) == {AllCountries} \cup Range(Column(frame, "Country"))

----------------------------------------------------------------------------
(* The state machine.                                                      *)

Init ==
    /\ csv_file \in Tables
    /\ cache = <<>>
    /\ status = "init"
    /\ df = <<>>
    /\ year_range = <<>>
    /\ country_select = {}
    /\ temp_range = <<>>
    /\ co2_range = <<>>
    /\ renew_range = <<>>
    /\ analysis_mode = ""
    /\ filtered_df = <<>>
    /\ csv_data = <<>>
    /\ summary = data_summary(<<>>)
    /\ warning = FALSE
    /\ rendered = <<>>
    /\ download = <<>>

\* A variant of the run that filters the view the previous run left
\* instead of the loaded table.
RerunOnView(yr, cs, tr, cr, rr, mode, click) ==
    \E out \in {script(IF status = "ok" THEN filtered_df
                        ELSE load_data(cache, csv_file),
                        yr, cs, tr, cr, rr, mode)} :
        /\ cache' = <<load_data(cache, csv_file)>>
        /\ status' = "ok"
        /\ df' = out.df
        /\ year_range' = yr
        /\ country_select' = cs
        /\ temp_range' = tr
        /\ co2_range' = cr
        /\ renew_range' = rr
        /\ analysis_mode' = mode
        /\ filtered_df' = out.filtered_df
        /\ csv_data' = out.csv_data
        /\ summary' = out.summary
        /\ warning' = out.warning
        /\ rendered' = out.rendered
        /\ download' = IF click THEN <<csv_data>> ELSE <<>>
        /\ UNCHANGED csv_file

\* One execution of the script, lines 1-246, with the widgets at the given
\* values: df = load_data() through the cache, then everything below it.
\* An export click first hands the browser the button's data of the page
\* it was clicked on.
Rerun(yr, cs, tr, cr, rr, mode, click) ==
    \E out \in {script(load_data(cache, csv_file), yr, cs, tr, cr, rr, mode)} :
        /\ cache' = <<load_data(cache, csv_file)>>
        /\ status' = "ok"
        /\ df' = out.df
        /\ year_range' = yr
        /\ country_select' = cs
        /\ temp_range' = tr
        /\ co2_range' = cr
        /\ renew_range' = rr
        /\ analysis_mode' = mode
        /\ filtered_df' = out.filtered_df
        /\ csv_data' = out.csv_data
        /\ summary' = out.summary
        /\ warning' = out.warning
        /\ rendered' = out.rendered
        /\ download' = IF click THEN <<csv_data>> ELSE <<>>
        /\ UNCHANGED csv_file

\* The first execution: every widget at its default.  On a file without
\* rows int(df["Year"].min()) of line 30 raises and the run ends there.
FirstRun ==
    /\ status = "init"
    /\ LET loaded == load_data(cache, csv_file)
       IN  IF loaded = <<>>
           THEN /\ cache' = <<loaded>>
                /\ status' = "error"
                /\ df' = loaded
                /\ UNCHANGED <<csv_file, year_range, country_select,
                               temp_range, co2_range, renew_range,
                               analysis_mode, filtered_df, csv_data, summary,
                               warning, rendered, download>>
           ELSE Rerun(full_range(loaded, "Year"),
                      {AllCountries},
                      full_range(loaded, "Avg_Temperature_degC"),
                      full_range(loaded, "CO2_Emissions_tons_per_capita"),
                      full_range(loaded, "Renewable_Energy_pct"),
                      Modes[1], FALSE)

\* The user drags one handle of the year slider, lines 32-38.
ChangeYearRange ==
    /\ status = "ok"
    /\ \E v \in slider_values(year_stops(load_data(cache, csv_file))) :
          /\ v # year_range
          /\ (v[1] = year_range[1] \/ v[2] = year_range[2])
          /\ Rerun(v, country_select, temp_range, co2_range, renew_range,
                   analysis_mode, FALSE)

\* The user adds an option to the country selection or removes one,
\* lines 42-44.
ChangeCountries ==
    /\ status = "ok"
    /\ \E c \in country_options(load_data(cache, csv_file)) :
          Rerun(year_range,
                IF c \in country_select THEN country_select \ {c}
                ELSE country_select \cup {c},
                temp_range, co2_range, renew_range, analysis_mode, FALSE)

\* The user drags one handle of the temperature slider, lines 47-55.
ChangeTempRange ==
    /\ status = "ok"
    /\ \E v \in slider_values(float_stops(load_data(cache, csv_file),
                                          "Avg_Temperature_degC")) :
          /\ v # temp_range
          /\ (v[1] = temp_range[1] \/ v[2] = temp_range[2])
          /\ Rerun(year_range, country_select, v, co2_range, renew_range,
                   analysis_mode, FALSE)

\* The user drags one handle of the CO2 slider, lines 58-66.
ChangeCO2Range ==
    /\ status = "ok"
    /\ \E v \in slider_values(float_stops(load_data(cache, csv_file),
                                          "CO2_Emissions_tons_per_capita")) :
          /\ v # co2_range
          /\ (v[1] = co2_range[1] \/ v[2] = co2_range[2])
          /\ Rerun(year_range, country_select, temp_range, v, renew_range,
                   analysis_mode, FALSE)

\* The user drags one handle of the renewable-energy slider, lines 69-77.
ChangeRenewRange ==
    /\ status = "ok"
    /\ \E v \in slider_values(float_stops(load_data(cache, csv_file),
                                          "Renewable_Energy_pct")) :
          /\ v # renew_range
          /\ (v[1] = renew_range[1] \/ v[2] = renew_range[2])
          /\ Rerun(year_range, country_select, temp_range, co2_range, v,
                   analysis_mode, FALSE)

\* The user picks another analysis mode, lines 134-137.
ChangeMode ==
    /\ status = "ok"
    /\ \E m \in Range(Modes) :
          /\ m # analysis_mode
          /\ Rerun(year_range, country_select, temp_range, co2_range,
                   renew_range, m, FALSE)

\* The user clicks "Export Filtered Data", lines 106-111.
ClickExport ==
    /\ status = "ok"
    /\ Rerun(year_range, country_select, temp_range, co2_range, renew_range,
             analysis_mode, TRUE)

Next ==
    \/ FirstRun
    \/ ChangeYearRange
    \/ ChangeCountries
    \/ ChangeTempRange
    \/ ChangeCO2Range
    \/ ChangeRenewRange
    \/ ChangeMode
    \/ ClickExport

Spec == Init /\ [][Next]_vars

----------------------------------------------------------------------------
(* The claims.  Each is stated over the page the last run left, for every  *)
(* reachable combination of source table, widget values and mode.          *)

Count(frame, r) == Cardinality({i \in DOMAIN frame : frame[i] = r})

\* v lies in the closed interval [rng[1], rng[2]].
Within(v, rng) == v \in rng[1] .. rng[2]

RangesHold(r) ==
    /\ Within(r.Year, year_range)
    /\ Within(r.Avg_Temperature_degC, temp_range)
    /\ Within(r.CO2_Emissions_tons_per_capita, co2_range)
    /\ Within(r.Renewable_Energy_pct, renew_range)

CountryClause(r) ==
    AllCountries \in country_select \/ r.Country \in country_select

\* C1: the filtered view holds exactly the rows of the source table whose
\* Year, temperature, CO2 and renewable share lie in their ranges, bounds
\* included, and whose country clause holds: each such row as often as the
\* source has it, in the source's order, and no other row.
C1_FilteredViewExact ==
    status = "ok" =>
        /\ \A r \in RowUniverse :
              Count(filtered_df, r) =
                  IF RangesHold(r) /\ CountryClause(r) THEN Count(df, r) ELSE 0
        /\ \E pos \in [DOMAIN filtered_df -> DOMAIN df] :
              /\ \A i \in DOMAIN filtered_df : df[pos[i]] = filtered_df[i]
              /\ \A i, j \in DOMAIN filtered_df : i < j => pos[i] < pos[j]

\* A row whose year equals the upper bound and whose temperature equals the
\* lower bound is in the view, while another row of the source is not.
C1_Witness ==
    /\ status = "ok"
    /\ Len(filtered_df) < Len(df)
    /\ \E r \in Range(filtered_df) :
          /\ r.Year = year_range[2]
          /\ r.Avg_Temperature_degC = temp_range[1]
          /\ year_range[2] < SetMax(Range(Column(df, "Year")))

\* C2: filtering is idempotent: the filter of lines 83-96, applied with the
\* same bounds and selection to the view it produced, returns that view.
C2_FilterIdempotent ==
    status = "ok" =>
        apply_filters(filtered_df, year_range, country_select, temp_range,
                      co2_range, renew_range).filtered_df = filtered_df

\* A non-empty view that is a proper part of the source.
C2_Witness ==
    /\ status = "ok"
    /\ Len(filtered_df) > 0
    /\ Len(filtered_df) < Len(df)

\* C3: with "All Countries" in the selection, alone or not, no row is
\* excluded for its country (the view is what the ranges alone admit);
\* without it every row of the view has its country in the selection, and
\* an empty selection gives an empty view.
C3_AllCountriesSentinel ==
    status = "ok" =>
        /\ AllCountries \in country_select =>
              \A r \in RowUniverse :
                  Count(filtered_df, r) =
                      IF RangesHold(r) THEN Count(df, r) ELSE 0
        /\ AllCountries \notin country_select =>
              \A r \in Range(filtered_df) : r.Country \in country_select
        /\ country_select = {} => filtered_df = <<>>

\* The sentinel is selected together with a named country, and the view
\* holds a row of a country that is not selected.
C3_Witness ==
    /\ status = "ok"
    /\ AllCountries \in country_select
    /\ country_select # {AllCountries}
    /\ \E r \in Range(filtered_df) : r.Country \notin country_select

\* C4: the loaded table is never changed: after every run, whatever was
\* filtered, shown or exported, the script's df and the cached load are
\* the rows of the source file.
C4_SourceImmutable ==
    status = "ok" => df = csv_file /\ cache = <<csv_file>>

\* A run that answered an export click, in another mode than the first,
\* with a view that left rows of the source out.
C4_Witness ==
    /\ status = "ok"
    /\ download # <<>>
    /\ analysis_mode # Modes[1]
    /\ Len(filtered_df) < Len(df)

\* C5: every run on a loaded table completes; when its view is empty it
\* shows the notice and no chart, in every mode, and when its view is not
\* empty it shows no notice.
C5_EmptyViewNotice ==
    (status # "init" /\ csv_file # <<>>) =>
        /\ status = "ok"
        /\ Len(filtered_df) = 0 => warning /\ rendered = <<>>
        /\ Len(filtered_df) > 0 => ~warning

\* An empty view in the Correlation mode, with the notice.
C5_Witness ==
    /\ status = "ok"
    /\ Len(filtered_df) = 0
    /\ analysis_mode = "Correlation"
    /\ warning

\* C6: the export read back has the seven columns and as many rows as the
\* view, and its value in every row and column is the view's (so are its
\* dtypes, when the view has rows); the file an export click delivers is
\* that export.
C6_ExportRoundTrip ==
    status = "ok" =>
        \A back \in {read_csv(csv_data)} :
            /\ back.columns = [k \in DOMAIN Columns |-> <<Columns[k]>>]
            /\ Len(back.rows) = Len(filtered_df)
            /\ Len(filtered_df) > 0 =>
                  back.dtypes = [k \in DOMAIN Columns |-> Dtypes[Columns[k]]]
            /\ \A i \in DOMAIN filtered_df : \A k \in DOMAIN Columns :
                  back.rows[i][k] = filtered_df[i][Columns[k]]
            /\ download # <<>> => download[1] = csv_data

\* An export click on a view the country filter cut down to the rows of
\* "Korea, Rep.", whose name is quoted in the CSV.
C6_Witness ==
    /\ status = "ok"
    /\ download # <<>>
    /\ country_select = {Korea}
    /\ Len(filtered_df) > 0
    /\ Len(filtered_df) < Len(df)

ChartValues(chart) ==
    CASE chart.kind = "trends" ->
             UNION { { chart.data[k].Avg_Temperature_degC,
                       chart.data[k].CO2_Emissions_tons_per_capita,
                       chart.data[k].Renewable_Energy_pct,
                       chart.data[k].Extreme_Weather_Events }
                     : k \in DOMAIN chart.data }
      [] chart.kind = "treemap" ->
             UNION { { chart.data[c].Avg_Temperature_degC,
                       chart.data[c].CO2_Emissions_tons_per_capita,
                       chart.data[c].Extreme_Weather_Events,
                       chart.data[c].Population }
                     : c \in DOMAIN chart.data }
      [] chart.kind = "heatmap" ->
             UNION { { chart.data[c][y] : y \in DOMAIN chart.data[c] }
                     : c \in DOMAIN chart.data }
      [] OTHER -> {}

\* C7: a run whose view has at most one row shows no least-squares slope
\* and no correlation coefficient, and no value it shows is the NaN of a
\* division by zero.
C7_NoDegenerateStatistics ==
    (status = "ok" /\ Len(filtered_df) <= 1) =>
        \A i \in DOMAIN rendered :
            /\ rendered[i].kind \notin {"slope", "correlation"}
            /\ \A v \in ChartValues(rendered[i]) : v # <<>>

\* A one-row view in the Trends mode, with its chart drawn.
C7_Witness ==
    /\ status = "ok"
    /\ Len(filtered_df) = 1
    /\ analysis_mode = "Trends"
    /\ rendered # <<>>

\* The exact mean of the temperatures of the view's rows of country c and
\* year y, and whether there is such a row.
CellRows(c, y) ==
    {i \in DOMAIN filtered_df :
        filtered_df[i].Country = c /\ filtered_df[i].Year = y}

RECURSIVE SetSum(_, _)
SetSum(S, f) ==
    IF S = {} THEN 0
    ELSE LET x == CHOOSE e \in S : TRUE IN f[x] + SetSum(S \ {x}, f)

IsMeanOf(cell, S, f) ==
    /\ Len(cell) = 2
    /\ cell[2] > 0
    /\ cell[1] * Cardinality(S) = cell[2] * SetSum(S, f)

\* C8: the heatmap's matrix has a row per country and a column per year of
\* the view; a cell holds the mean temperature of the view's rows of that
\* country and year, and the sentinel zero when there is none.
C8_HeatmapZeroFilled ==
    (status = "ok" /\ analysis_mode = "Temperature" /\ Len(filtered_df) > 0) =>
        /\ Len(rendered) = 1
        /\ rendered[1].kind = "heatmap"
        /\ \A m \in {rendered[1].data} :
              /\ DOMAIN m = Range(Column(filtered_df, "Country"))
              /\ \A c \in DOMAIN m :
                    /\ DOMAIN m[c] = Range(Column(filtered_df, "Year"))
                    /\ \A y \in DOMAIN m[c] :
                          IF CellRows(c, y) = {}
                          THEN m[c][y] = <<0, 1>>
                          ELSE IsMeanOf(m[c][y], CellRows(c, y),
                                        Column(filtered_df,
                                               "Avg_Temperature_degC"))

\* C9: after any sequence of interactions the view, the summary and the
\* export are those of a fresh run of the script on the source file with
\* the widgets' current values.
C9_ViewDependsOnlyOnControls ==
    status = "ok" =>
        \A fresh \in {script(csv_file, year_range, country_select, temp_range,
                             co2_range, renew_range, analysis_mode)} :
            /\ filtered_df = fresh.filtered_df
            /\ summary = fresh.summary
            /\ csv_data = fresh.csv_data

\* A page several interactions away from the first: both countries
\* selected by name, the temperature range narrowed to one value, the
\* Renewable mode, answering an export click.
C9_Witness ==
    /\ status = "ok"
    /\ download # <<>>
    /\ analysis_mode = "Renewable"
    /\ country_select = {Chad, Korea}
    /\ temp_range[1] = temp_range[2]
    /\ year_range[1] < year_range[2]
    /\ Len(filtered_df) > 0

Kinds(charts) == [i \in DOMAIN charts |-> charts[i].kind]

LatestRows ==
    {i \in DOMAIN filtered_df :
        \A j \in DOMAIN filtered_df : filtered_df[j].Year <= filtered_df[i].Year}

Point(r) ==
    [x |-> r.CO2_Emissions_tons_per_capita, y |-> r.Avg_Temperature_degC,
     size |-> r.Population, color |-> r.Country]

\* C10: with a non-empty view a run draws the charts of the selected mode
\* and no other: the treemap then the trend chart for Overview, the trend
\* chart for Trends, the scatter of the view's rows of its largest year for
\* Correlation, the heatmap for Temperature, and for Renewable what Trends
\* draws.
C10_ModeCharts ==
    (status = "ok" /\ Len(filtered_df) > 0) =>
        /\ ~warning
        /\ Kinds(rendered) =
              CASE analysis_mode = "Overview" -> <<"treemap", "trends">>
                [] analysis_mode = "Trends" -> <<"trends">>
                [] analysis_mode = "Correlation" -> <<"scatter">>
                [] analysis_mode = "Temperature" -> <<"heatmap">>
                [] analysis_mode = "Renewable" -> <<"trends">>
        /\ analysis_mode = "Correlation" =>
              \A pts \in {rendered[1].data} :
                  /\ Len(pts) = Cardinality(LatestRows)
                  /\ \A i \in LatestRows :
                        Count(pts, Point(filtered_df[i])) =
                            Cardinality({j \in LatestRows :
                                            filtered_df[j] = filtered_df[i]})
        /\ analysis_mode \in {"Trends", "Renewable"} =>
              rendered = show_trend_panels(filtered_df)
        /\ analysis_mode = "Overview" =>
              rendered[2] = show_trend_panels(filtered_df)[1]

\* The Correlation mode on a view with rows of two years.
C10_Witness ==
    /\ status = "ok"
    /\ analysis_mode = "Correlation"
    /\ Cardinality(Range(Column(filtered_df, "Year"))) = 2
    /\ Len(rendered) = 1

====
